---- MODULE Spec2Model ----
(***************************************************************************)
(* Appointment-status synchronization of Healiofy: the client service      *)
(* (appointmentService: AppointmentSyncManager, syncAppointmentToDatabase, *)
(* updateAppointmentStatus, getUserAppointments), the connectivity         *)
(* handlers of AppointmentsList and the appointment routes of the server.  *)
(*                                                                         *)
(* The JavaScript runtime is single threaded: a handler runs without       *)
(* interruption until it awaits a request.  One action of this module is   *)
(* such an uninterrupted run, with one coarsening: the requests of one     *)
(* candidate scan (one operation's delivery attempt) are answered in one   *)
(* action, so connectivity and backend do not change between two candidate *)
(* requests of the same scan.  Calls still interleave with each other: an  *)
(* update call, a drain pass and a fetch can all be in flight at once.     *)
(*                                                                         *)
(* The texts kept in localStorage are sequences of tokens, written and     *)
(* read by models of JSON.stringify and JSON.parse.  The trial counters of *)
(* the server's subscription middleware are a separate part of the state:  *)
(* one action per run of a middleware invocation between two awaits.       *)
(***************************************************************************)
EXTENDS Integers, Sequences, FiniteSets, TLC

\* ------------------------------------------------------------------ bounds
\* Largest value of the clock that stamps pending operations.
MaxClock == 1
\* The number of requests that reach the subscription middleware.
MaxRequests == 4

\* ---------------------------------------------------------------- constants
\* The free trial: 3 prescription analyses and 1 consultant booking.
TrialAnalyses == 3
TrialConsultations == 1

\* ------------------------------------------------------------ input domains
\* Appointment identifiers known to the server (24 hexadecimal characters).
Ids == {"a1", "a2"}
\* An identifier the validity check of updateAppointmentStatus rejects.
BadId == "bad"
\* The calls updateAppointmentStatus(id, status) the user makes: cancel an
\* appointment, confirm one again, and a call with a malformed identifier.
Intents ==
  { <<"a1", "cancelled">>, <<"a1", "confirmed">>, <<"a2", "cancelled">>,
    <<BadId, "cancelled">> }
\* The order in which the server lists the appointments of the user.
ServerOrder == <<"a1", "a2">>

\* ---------------------------------------------------------- request shapes
\* The candidate list of updateAppointmentStatus, in order.
UpdateEndpoints ==
  << "PATCH /appointments/:id",
     "PUT /appointments/status/:id",
     "PATCH /appointment/:id",
     "PUT /appointment/status/:id",
     "PATCH /appointments?id=",
     "PATCH /appointment?id=",
     "PUT /appointments/status?id=",
     "PUT /appointment/status?id=",
     "POST /updateAppointment/:id",
     "POST /cancelAppointment/:id" >>

\* The candidate list of syncAppointmentToDatabase, in order.
SyncEndpoints ==
  << "PATCH /appointments/:id",
     "PUT /appointments/:id/status",
     "PUT /appointments/status/:id",
     "PATCH /appointment/:id",
     "PUT /appointment/status/:id" >>

Range(s) == {s[i] : i \in 1..Len(s)}

\* A URL that matches no candidate shape (the result of a bad substitution).
Garbled == "garbled"
NoShape == "none"

\* The request shapes a backend of the model may serve: the route of the
\* repository's server (PUT /:id/status), a shape both candidate lists start
\* with, and a shape only updateAppointmentStatus knows.
ServerShapes ==
  { "PUT /appointments/:id/status",
    "PATCH /appointments/:id",
    "PATCH /appointments?id=" }

\* Where the identifier sits in the URL of a shape.
IdPosition(shape) ==
  IF shape \in {"PUT /appointments/:id/status"} THEN "middle"
  ELSE IF shape \in {"PATCH /appointments?id=", "PATCH /appointment?id=",
                     "PUT /appointments/status?id=", "PUT /appointment/status?id="}
       THEN "query"
       ELSE "end"

NoEndpoint == [shape |-> NoShape, id |-> "none"]

\* -------------------------------------------------------------------- state
VARIABLES
  online,                 \* navigator.onLine
  token,                  \* localStorage 'token' is present
  backend,                \* "up" or "authExpired" (the credential is rejected)
  serverShape,            \* the request shape the backend serves
  rejected,               \* appointments whose status change the server refuses
  storageFails,           \* localStorage.setItem throws (the quota is used up)
  server,                 \* status of each appointment on the server
  now,                    \* the clock read by new Date()
  pendingOperations,      \* AppointmentSyncManager.pendingOperations
  queueIsArray,           \* pendingOperations holds an array
  storedOperations,       \* localStorage 'pendingAppointmentOperations'
  isProcessing,           \* AppointmentSyncManager.isProcessing
  passes,                 \* the running syncPendingOperations invocations
  lastSuccessfulEndpoint, \* module variable lastSuccessfulEndpoint
  cachedAppointments,     \* localStorage 'cachedAppointments'
  upd,                    \* the updateAppointmentStatus call in flight
  fetch,                  \* the getUserAppointments call in flight
  lastIntent,             \* history: the latest intent for each appointment
  isSyncing,              \* AppointmentsList: handleManualSync is awaiting
  toast,                  \* AppointmentsList: the last toast of handleManualSync
  scan,                   \* the resolver calls in flight, request by request
  userDoc,                \* the User document in the database
  requests,               \* the requests in the subscription middleware
  admitted                \* history: the requests the middleware let through

vars == << online, token, backend, serverShape, rejected, storageFails,
           server, now,
           pendingOperations, queueIsArray, storedOperations, isProcessing,
           passes,
           lastSuccessfulEndpoint, cachedAppointments,
           upd, fetch, lastIntent, isSyncing, toast, scan,
           userDoc, requests, admitted >>

NoCache == [present |-> FALSE, list |-> << >>]
IdleUpd == [pc |-> "idle", id |-> "none", status |-> "none",
            cached |-> NoEndpoint]
IdleFetch == [pc |-> "idle", ok |-> FALSE, data |-> << >>]
NoIntent == [status |-> "none", acknowledged |-> FALSE]
\* A resolver call before its first answer: no request of it was answered
\* and the server applied none; the call before it (if any) ended with
\* `result`.
NoScan == [answered |-> 0, applied |-> 0, result |-> "none"]
\* The two callers of the resolver: updateAppointmentStatus and the drain
\* (syncAppointmentToDatabase).
Callers == {"update", "drain"}

\* The services the trial limits, with the counter of each, and all the
\* services behind a subscription check.
Services == {"prescription", "consultation"}
AllServices == Services \cup {"chatbot"}
\* A user who has just started the trial.  The end date of a subscription is
\* absent, in the past or in the future.
NewUser ==
  [subscriptionStatus |-> "trial",
   prescription |-> TrialAnalyses,
   consultation |-> TrialConsultations,
   subscriptionEndDate |-> "none"]
\* The subscription states a User document may be in.
Users ==
  [subscriptionStatus : {"trial", "active", "inactive"},
   prescription : 0..TrialAnalyses,
   consultation : 0..TrialConsultations,
   subscriptionEndDate : {"none", "past", "future"}]

\* ------------------------------------------------------------- environment
\* The controller behind the route refuses the status change of some
\* appointments with a validation error (a well-formed 400 answer).
ControllerRejects(req) == req.id \in rejected

\* The answer to one status request, given the state at its arrival: no
\* response while offline, 404 for a URL no route matches, 401 from the
\* protect middleware, 400 from the controller, otherwise success.
Respond(req) ==
  IF ~online THEN "network"
  ELSE IF req.shape # serverShape \/ req.id \notin Ids THEN "404"
  ELSE IF ~token \/ backend = "authExpired" THEN "401"
  ELSE IF ControllerRejects(req) THEN "400"
  ELSE "ok"

\* A candidate scan: the requests go out one after another until the server
\* accepts one.  The index of the first accepted candidate, 0 if every
\* candidate fails.  The requests of one scan are answered under the
\* conditions (connectivity, backend) of the moment the scan resolves.
FirstAccepted(endpoints, id) ==
  LET accepted == {k \in 1..Len(endpoints) :
                     Respond([shape |-> endpoints[k], id |-> id]) = "ok"}
  IN  IF accepted = {} THEN 0
      ELSE CHOOSE k \in accepted : \A j \in accepted : k <= j

\* GET /appointments: the list of the user's appointments, or a failure.
FetchSucceeds == online /\ token /\ backend = "up"

ServerList ==
  [i \in 1..Len(ServerOrder) |->
     [id |-> ServerOrder[i], status |-> server[ServerOrder[i]]]]

\* ---------------------------------------------------------- durable storage
\* The text of a localStorage item is a sequence of tokens.  getItem of a
\* missing item gives null, which the callers treat like the empty text.
NoItem == << >>

\* The fields of a pending operation and of a cached appointment, in the
\* order JSON.stringify writes them.
OperationKeys == << "id", "status", "timestamp" >>
AppointmentKeys == << "id", "status" >>

\* The values of the clock.
Clock == 0..MaxClock

\* A field value when its serialisation loses it (JSON.stringify writes null
\* for a date it cannot represent).
TextLosesTimestamp(key, value) ==
  IF key = "timestamp" THEN "null" ELSE value

\* A field value as JSON text and back.  Every field is a string in the
\* program; the timestamp, an ISO date string there, is a number here.
Text(key, value) ==
  IF key = "timestamp" THEN ToString(value) ELSE value

IsValue(key, text) ==
  key = "timestamp" => \E t \in Clock : ToString(t) = text

Value(key, text) ==
  IF key = "timestamp" THEN CHOOSE t \in Clock : ToString(t) = text
  ELSE text

RECURSIVE Concat(_)
Concat(seqs) ==
  IF seqs = << >> THEN << >> ELSE Head(seqs) \o Concat(Tail(seqs))

\* JSON.stringify of one object and of an array of objects.
StringifyObject(keys, object) ==
  << "{" >>
  \o Concat([i \in 1..Len(keys) |->
               << keys[i], Text(keys[i], object[keys[i]]) >>])
  \o << "}" >>

Stringify(keys, list) ==
  << "[" >>
  \o Concat([i \in 1..Len(list) |-> StringifyObject(keys, list[i])])
  \o << "]" >>

\* The number of tokens of an object with these keys.
ObjectWidth(keys) == 2 * Len(keys) + 2

IsObjectText(keys, text) ==
  /\ Len(text) = ObjectWidth(keys)
  /\ text[1] = "{"
  /\ text[Len(text)] = "}"
  /\ \A i \in 1..Len(keys) :
       /\ text[2 * i] = keys[i]
       /\ IsValue(keys[i], text[2 * i + 1])

ParseObject(keys, text) ==
  [key \in Range(keys) |->
     LET i == CHOOSE j \in 1..Len(keys) : keys[j] = key
     IN  Value(key, text[2 * i + 1])]

\* The object texts between the brackets of an array text.
Elements(keys, text) ==
  [i \in 1..((Len(text) - 2) \div ObjectWidth(keys)) |->
     SubSeq(text, 2 + (i - 1) * ObjectWidth(keys),
                  1 + i * ObjectWidth(keys))]

IsArrayText(keys, text) ==
  /\ Len(text) >= 2
  /\ text[1] = "["
  /\ text[Len(text)] = "]"
  /\ (Len(text) - 2) % ObjectWidth(keys) = 0
  /\ \A i \in 1..Len(Elements(keys, text)) :
       IsObjectText(keys, Elements(keys, text)[i])

\* JSON.parse of a text: an array of objects, another JSON value (here the
\* empty object), or a SyntaxError.
ParseJSON(keys, text) ==
  IF IsArrayText(keys, text)
  THEN [kind |-> "array",
        value |-> [i \in 1..Len(Elements(keys, text)) |->
                     ParseObject(keys, Elements(keys, text)[i])]]
  ELSE IF text = << "{", "}" >>
       THEN [kind |-> "object", value |-> << >>]
       ELSE [kind |-> "error", value |-> << >>]

\* localStorage.setItem inside try/catch: the item after the write, which is
\* the item before it when setItem throws (the error is only logged).
SetItem(item, written) == IF storageFails THEN item ELSE written

\* savePendingOperations: the text written for the queue.
StringifyOperations(ops) == Stringify(OperationKeys, ops)

\* loadPendingOperations: what the field pendingOperations holds after it.
\* A missing item leaves the empty array of the field initialiser, a
\* SyntaxError is caught and gives the empty array, and any parsed value is
\* assigned as it is - an array or not.
LoadPendingOperations(text) ==
  IF text = NoItem
  THEN [isArray |-> TRUE, operations |-> << >>]
  ELSE LET parsed == ParseJSON(OperationKeys, text)
       IN  IF parsed.kind = "error"
           THEN [isArray |-> TRUE, operations |-> << >>]
           ELSE [isArray |-> parsed.kind = "array",
                 operations |-> parsed.value]

\* The cache item written for a list, and the list read back from an item.
StringifyAppointments(list) == Stringify(AppointmentKeys, list)
ParseAppointments(text) == ParseJSON(AppointmentKeys, text).value

\* What the item 'pendingAppointmentOperations' may hold when the application
\* starts: nothing, a saved queue, a text cut short, a JSON object.
StoredTexts ==
  { NoItem,
    StringifyOperations(<< >>),
    StringifyOperations(<< [id |-> "a1", status |-> "cancelled",
                            timestamp |-> 0] >>),
    << "[", "{", "id" >>,
    << "{", "}" >> }

\* --------------------------------------------------- pending operation queue
IndexOfId(ops, id) ==
  IF \E i \in 1..Len(ops) : ops[i].id = id
  THEN CHOOSE i \in 1..Len(ops) :
         ops[i].id = id /\ \A j \in 1..(i - 1) : ops[j].id # id
  ELSE 0

\* addPendingOperation without the lookup of an existing entry.
EnqueueAlwaysAppends(ops, id, status, t) ==
  Append(ops, [id |-> id, status |-> status, timestamp |-> t])

\* The new content of pendingOperations in addPendingOperation.
EnqueueOperation(ops, id, status, t) ==
  LET existingIndex == IndexOfId(ops, id)
      op == [id |-> id, status |-> status, timestamp |-> t]
  IN  IF existingIndex # 0
      THEN [ops EXCEPT ![existingIndex] = op]
      ELSE Append(ops, op)

\* Array.prototype.sort with the timestamp comparator (a stable sort).
RECURSIVE InsertByTimestamp(_, _)
InsertByTimestamp(sorted, op) ==
  IF sorted = << >> THEN << op >>
  ELSE IF Head(sorted).timestamp <= op.timestamp
       THEN << Head(sorted) >> \o InsertByTimestamp(Tail(sorted), op)
       ELSE << op >> \o sorted

RECURSIVE SortByTimestamp(_)
SortByTimestamp(ops) ==
  IF ops = << >> THEN << >>
  ELSE InsertByTimestamp(SortByTimestamp(SubSeq(ops, 1, Len(ops) - 1)),
                         ops[Len(ops)])

\* pendingOperations.filter(op => !operationsToRemove.includes(op.id))
RemoveOperations(ops, operationsToRemove) ==
  LET Keep(op) == op.id \notin Range(operationsToRemove)
  IN  SelectSeq(ops, Keep)

\* The early return without the isProcessing test.
SyncGuardIgnoresProcessing(processing, ops, on) ==
  Len(ops) = 0 \/ ~on

\* The early return without the connectivity test.
SyncGuardIgnoresOnline(processing, ops, on) ==
  processing \/ (queueIsArray /\ Len(ops) = 0)

\* The early return of syncPendingOperations (the length of a value that is
\* not an array is undefined, which is not 0).
SyncGuard(processing, ops, on) ==
  processing \/ (queueIsArray /\ Len(ops) = 0) \/ ~on

\* A pass that walks the queue in its stored order, without the sort.
NewPassInQueueOrder(ops) ==
  [sortedOperations |-> ops, index |-> 1, operationsToRemove |-> << >>]

\* The loop variables of a pass at its start: the sorted copy of the queue,
\* the position in it, and the identifiers to remove.
NewPass(ops) ==
  [sortedOperations |-> SortByTimestamp(ops), index |-> 1,
   operationsToRemove |-> << >>]

\* syncPendingOperations from its call to its first request: the values of
\* isProcessing and of the running passes after the call.  Spreading a value
\* that is not an array throws after isProcessing was set.
SyncPendingOperations(processing, ps, ops, on) ==
  IF SyncGuard(processing, ops, on)
  THEN [isProcessing |-> processing, passes |-> ps]
  ELSE IF queueIsArray
       THEN [isProcessing |-> TRUE, passes |-> Append(ps, NewPass(ops))]
       ELSE [isProcessing |-> TRUE, passes |-> ps]

\* ------------------------------------------------------------- cache store
\* appointments.map(a => a._id === cleanId ? MOCK_DATA.appointments[cleanId] : a)
\* An appointment is its identifier and its status here; of the record kept
\* in MOCK_DATA only the status, which is always the new one, is represented.
ReplaceCached(list, id, status) ==
  [i \in 1..Len(list) |->
     IF list[i].id = id THEN [id |-> id, status |-> status] ELSE list[i]]

\* An optimistic write whose map ignores the identifier.
OptimisticCacheEveryEntry(cache, id, status) ==
  IF cache.present
  THEN [cache EXCEPT !.list =
          [i \in 1..Len(cache.list) |-> [cache.list[i] EXCEPT !.status = status]]]
  ELSE cache

\* The optimistic write of 'cachedAppointments' after an enqueue.
OptimisticCache(cache, id, status) ==
  IF cache.present
  THEN [cache EXCEPT !.list = ReplaceCached(cache.list, id, status)]
  ELSE cache

\* The list getUserAppointments returns for a successful response.
FetchedList(data) == data

\* The list getUserAppointments returns when the request failed.
FallbackList(cache) == IF cache.present THEN cache.list ELSE << >>

\* -------------------------------------------------------- endpoint resolver
\* The request of the cached-endpoint attempt: the URL of
\* lastSuccessfulEndpoint after replace(/\/[a-f0-9]{24}(?:\/|$)/, '/' + id).
CachedRequest(endpoint, cleanId) ==
  IF IdPosition(endpoint.shape) = "end"
  THEN [shape |-> endpoint.shape, id |-> cleanId]
  ELSE IF IdPosition(endpoint.shape) = "middle"
       THEN [shape |-> Garbled, id |-> cleanId]
       ELSE [shape |-> endpoint.shape, id |-> endpoint.id]

\* The status the server holds after it accepted a request.
Applied(srv, req, status) == [srv EXCEPT ![req.id] = status]

\* -------------------------------------------------------------------- Init
\* The client after the construction of its sync manager, on a device that is
\* online or offline, in front of a backend that serves one request shape.
ConstructedFrom(text) ==
  /\ online \in BOOLEAN
  /\ token = TRUE
  /\ backend = "up"
  /\ serverShape \in ServerShapes
  /\ storageFails = FALSE
  /\ server = [i \in Ids |-> "confirmed"]
  /\ now = 0
  /\ pendingOperations = LoadPendingOperations(text).operations
  /\ queueIsArray = LoadPendingOperations(text).isArray
  /\ storedOperations = text
  /\ isProcessing = FALSE
  /\ passes = << >>
  /\ lastSuccessfulEndpoint = NoEndpoint
  /\ cachedAppointments = NoCache
  /\ upd = IdleUpd
  /\ fetch = IdleFetch
  /\ lastIntent = [id \in Ids |-> NoIntent]
  /\ isSyncing = FALSE
  /\ toast = "none"
  /\ scan = [caller \in Callers |-> NoScan]
  /\ requests = << >>
  /\ admitted = [service \in AllServices |-> 0]

\* The first start: nothing is stored yet.
Constructed == ConstructedFrom(NoItem)

\* The server accepts the status change of every appointment.
Init == Constructed /\ rejected = {} /\ userDoc = NewUser

\* A start with an item 'pendingAppointmentOperations' in the storage.
InitLoaded ==
  /\ \E text \in StoredTexts : ConstructedFrom(text)
  /\ rejected = {}
  /\ userDoc = NewUser

\* The server refuses every status change of appointment a1.
InitRejecting == Constructed /\ rejected = {"a1"} /\ userDoc = NewUser

\* A user in any subscription state.
InitAccess == Constructed /\ rejected = {} /\ userDoc \in Users

\* The subscription state of the server.
quotaVars == << userDoc, requests, admitted >>
\* Everything outside the client: the device, the credential, the backend
\* and what the server keeps for its other routes.
envVars == << online, token, backend, serverShape, rejected, storageFails,
             quotaVars >>
queueVars == << pendingOperations, queueIsArray, storedOperations,
               isProcessing, passes >>
\* The state of the list component around its manual sync.
uiVars == << isSyncing, toast >>
\* What the appointment service itself never reads.
auxVars == << lastIntent, isSyncing, toast, scan >>

\* ------------------------------------------------------------------ history
\* updateAppointmentStatus(id, status) was called: the latest intent for id.
Intend(hist, id, status) ==
  [hist EXCEPT ![id] = [status |-> status, acknowledged |-> FALSE]]

\* The client received the server's success for (id, status): if that is the
\* latest intent for id, it is acknowledged now.
Acknowledge(hist, id, status) ==
  IF hist[id].status = status
  THEN [hist EXCEPT ![id].acknowledged = TRUE]
  ELSE hist

\* ------------------------------------------------- updateAppointmentStatus
\* The call up to its first request: the token check, the identifier check
\* (a failed check throws and changes nothing), and the request on the
\* remembered endpoint if there is one.
CallUpdate(id, status) ==
  /\ upd.pc = "idle"
  /\ upd' = IF ~token \/ id = BadId
            THEN upd
            ELSE [pc |-> "waiting", id |-> id, status |-> status,
                  cached |-> IF lastSuccessfulEndpoint # NoEndpoint
                             THEN CachedRequest(lastSuccessfulEndpoint, id)
                             ELSE NoEndpoint]
  /\ UNCHANGED << envVars, server, now, queueVars, lastSuccessfulEndpoint,
                  cachedAppointments, fetch >>

\* The request of the call in flight that the server accepts: the request on
\* the remembered endpoint, else the first accepted candidate of the scan,
\* else none.
UpdateAccepted ==
  IF upd.cached # NoEndpoint /\ Respond(upd.cached) = "ok"
  THEN upd.cached
  ELSE LET k == FirstAccepted(UpdateEndpoints, upd.id)
       IN  IF k # 0 THEN [shape |-> UpdateEndpoints[k], id |-> upd.id]
           ELSE NoEndpoint

\* The remembered endpoint when a failed attempt on it clears it before the
\* scan.
UpdateRememberedDiscards ==
  IF upd.cached # NoEndpoint /\ Respond(upd.cached) # "ok"
  THEN UpdateAccepted
  ELSE IF UpdateAccepted = NoEndpoint \/ UpdateAccepted = upd.cached
       THEN lastSuccessfulEndpoint
       ELSE UpdateAccepted

\* The endpoint updateAppointmentStatus remembers when it returns: only a
\* candidate of the scan is stored, and nothing clears the variable.
UpdateRemembered ==
  IF UpdateAccepted = NoEndpoint \/ UpdateAccepted = upd.cached
  THEN lastSuccessfulEndpoint
  ELSE UpdateAccepted

\* The outcome when a failed write of the queue aborts the call.
UpdateOutcomeSaveThrows ==
  IF UpdateAccepted # NoEndpoint THEN "ack"
  ELSE IF queueIsArray /\ ~storageFails THEN "mock" ELSE "throw"

\* What updateAppointmentStatus returns: the server's appointment ("ack") or,
\* after addPendingOperation, the mock appointment ("mock").  When the field
\* pendingOperations holds no array, findIndex in addPendingOperation throws
\* and the outer catch throws 'Request failed' ("throw").
UpdateOutcome ==
  IF UpdateAccepted # NoEndpoint THEN "ack"
  ELSE IF queueIsArray THEN "mock" ELSE "throw"

\* The mock fallback of updateAppointmentStatus(id, status) once every
\* request has failed: addPendingOperation (the entry, the save, the drain
\* trigger) and the optimistic cache write.
MockFallback(id, status) ==
  \E t \in {now, now + 1} :
    /\ t <= MaxClock
    /\ now' = t
    /\ LET ops == EnqueueOperation(pendingOperations, id, status, t)
           sync == SyncPendingOperations(isProcessing, passes, ops, online)
       IN  /\ pendingOperations' = ops
           /\ storedOperations' =
                SetItem(storedOperations, StringifyOperations(ops))
           /\ UNCHANGED queueIsArray
           /\ isProcessing' = sync.isProcessing
           /\ passes' = sync.passes
    /\ cachedAppointments' =
         SetItem(cachedAppointments,
                 OptimisticCache(cachedAppointments, id, status))

\* The answers to the requests of the call in flight, up to its return.  When
\* every request failed: the mock fallback.
UpdateResponse ==
  /\ upd.pc = "waiting"
  /\ IF UpdateOutcome = "ack"
     THEN /\ server' = Applied(server, UpdateAccepted, upd.status)
          /\ lastSuccessfulEndpoint' = UpdateRemembered
          /\ lastIntent' = Acknowledge(lastIntent, upd.id, upd.status)
          /\ UNCHANGED << now, queueVars, cachedAppointments >>
     ELSE IF UpdateOutcome = "throw"
     THEN UNCHANGED << server, now, queueVars, lastSuccessfulEndpoint,
                       cachedAppointments, lastIntent >>
     ELSE /\ MockFallback(upd.id, upd.status)
          /\ lastSuccessfulEndpoint' = UpdateRemembered
          /\ UNCHANGED << server, lastIntent >>
  /\ upd' = IdleUpd
  /\ UNCHANGED << envVars, fetch, uiVars, scan >>

\* ---------------------------------------------------- syncPendingOperations
\* hasPendingAppointmentSyncs
HasPendingAppointmentSyncs(ops) == Len(ops) > 0

\* A manual sync that reports success whatever the queue holds.
ManualSyncReportIgnoresQueue(ops) == "Sync Complete"

\* The toast of handleManualSync once syncPendingAppointments has resolved.
ManualSyncReport(ops) ==
  IF ~HasPendingAppointmentSyncs(ops) THEN "Sync Complete"
  ELSE "Partial Sync"

RemoveAt(s, i) == SubSeq(s, 1, i - 1) \o SubSeq(s, i + 1, Len(s))

\* The operation pass p is delivering.
DrainOperation(p) == passes[p].sortedOperations[passes[p].index]

\* syncAppointmentToDatabase for that operation: the first candidate the
\* server accepts, or none.
DrainAccepted(p) ==
  LET k == FirstAccepted(SyncEndpoints, DrainOperation(p).id)
  IN  IF k # 0 THEN [shape |-> SyncEndpoints[k], id |-> DrainOperation(p).id]
      ELSE NoEndpoint

\* What the answers make pass p do: go on with the next operation
\* ("advance") or end ("finish": the snapshot is exhausted, or the operation
\* failed and the loop breaks).
DrainOutcome(p) ==
  IF DrainAccepted(p) # NoEndpoint
     /\ passes[p].index < Len(passes[p].sortedOperations)
  THEN "advance" ELSE "finish"

\* operationsToRemove when the identifier is pushed before the outcome of
\* the delivery is known.
DrainRemovedBeforeOutcome(p) ==
  Append(passes[p].operationsToRemove, DrainOperation(p).id)

\* operationsToRemove after the answers.
DrainRemoved(p) ==
  IF DrainAccepted(p) # NoEndpoint
  THEN Append(passes[p].operationsToRemove, DrainOperation(p).id)
  ELSE passes[p].operationsToRemove

\* The end of a pass that filters the queue and forgets to save it.
PassEndsWithoutSave(p, operationsToRemove) ==
  /\ pendingOperations' =
       RemoveOperations(pendingOperations, operationsToRemove)
  /\ UNCHANGED storedOperations
  /\ isProcessing' = FALSE
  /\ passes' = RemoveAt(passes, p)
  /\ isSyncing' = FALSE
  /\ toast' = IF isSyncing THEN ManualSyncReport(pendingOperations')
              ELSE toast

\* The end of pass p: the acknowledged operations leave the queue, the queue
\* is saved if it changed, and isProcessing is cleared; a manual sync that
\* awaited the pass shows its toast.
PassEnds(p, operationsToRemove) ==
  /\ IF Len(operationsToRemove) > 0
     THEN /\ pendingOperations' =
               RemoveOperations(pendingOperations, operationsToRemove)
          /\ storedOperations' =
               SetItem(storedOperations,
                       StringifyOperations(pendingOperations'))
     ELSE UNCHANGED << pendingOperations, storedOperations >>
  /\ isProcessing' = FALSE
  /\ passes' = RemoveAt(passes, p)
  /\ isSyncing' = FALSE
  /\ toast' = IF isSyncing THEN ManualSyncReport(pendingOperations')
              ELSE toast

\* Pass p goes on with the next operation of its snapshot.
PassAdvances(p, operationsToRemove) ==
  /\ passes' = [passes EXCEPT ![p] =
                  [@ EXCEPT !.index = @ + 1,
                            !.operationsToRemove = operationsToRemove]]
  /\ UNCHANGED << pendingOperations, storedOperations, isProcessing,
                  uiVars >>

\* The answers to the requests of pass p for its current operation.
DrainResponse(p) ==
  /\ p \in 1..Len(passes)
  /\ IF DrainAccepted(p) # NoEndpoint
     THEN /\ server' = Applied(server, DrainAccepted(p),
                               DrainOperation(p).status)
          /\ lastSuccessfulEndpoint' = DrainAccepted(p)
          /\ lastIntent' = Acknowledge(lastIntent, DrainOperation(p).id,
                                       DrainOperation(p).status)
     ELSE UNCHANGED << server, lastSuccessfulEndpoint, lastIntent >>
  /\ IF DrainOutcome(p) = "finish"
     THEN PassEnds(p, DrainRemoved(p))
     ELSE PassAdvances(p, DrainRemoved(p))
  /\ UNCHANGED << envVars, now, queueIsArray, cachedAppointments, upd,
                  fetch, scan >>

\* handleManualSync of the appointment list, with its toast: the trigger,
\* the wait for the pass it started (the pass reports at its end, in
\* DrainResponse) or, when syncPendingOperations returned at once, the toast.
\* The button is disabled while a manual sync is waiting.
ManualSyncReported ==
  /\ online
  /\ ~isSyncing
  /\ LET sync == SyncPendingOperations(isProcessing, passes,
                                       pendingOperations, online)
         started == Len(sync.passes) > Len(passes)
     IN  /\ isProcessing' = sync.isProcessing
         /\ passes' = sync.passes
         /\ isSyncing' = started
         /\ toast' = IF started THEN toast
                     ELSE IF ~queueIsArray THEN "Sync Failed"
                     ELSE ManualSyncReport(pendingOperations)
  /\ UNCHANGED << envVars, server, now, pendingOperations, queueIsArray,
                  storedOperations, lastSuccessfulEndpoint,
                  cachedAppointments, upd, fetch, lastIntent, scan >>

\* handleManualSync of the appointment list: a drain trigger while the list
\* believes the device is online.
ManualSync ==
  /\ online
  /\ LET sync == SyncPendingOperations(isProcessing, passes,
                                       pendingOperations, online)
     IN  /\ isProcessing' = sync.isProcessing
         /\ passes' = sync.passes
  /\ UNCHANGED << envVars, server, now, pendingOperations, queueIsArray,
                  storedOperations,
                  lastSuccessfulEndpoint, cachedAppointments, upd, fetch,
                  auxVars >>

\* ------------------------------------------------------ getUserAppointments
\* fetchAppointments of the list: the GET /appointments request is issued.
FetchStart ==
  /\ fetch.pc = "idle"
  /\ fetch' = [fetch EXCEPT !.pc = "sent"]
  /\ UNCHANGED << envVars, server, now, queueVars, lastSuccessfulEndpoint,
                  cachedAppointments, upd, auxVars >>

\* The backend produces the response (or the request fails).
FetchServerReply ==
  /\ fetch.pc = "sent"
  /\ fetch' = IF FetchSucceeds
              THEN [pc |-> "replied", ok |-> TRUE, data |-> ServerList]
              ELSE [pc |-> "replied", ok |-> FALSE, data |-> << >>]
  /\ UNCHANGED << envVars, server, now, queueVars, lastSuccessfulEndpoint,
                  cachedAppointments, upd, auxVars >>

\* The list getUserAppointments returns when the response arrives.
ReturnedList ==
  IF fetch.ok THEN FetchedList(fetch.data)
  ELSE FallbackList(cachedAppointments)

\* The response reaches getUserAppointments: on success the cache write, the
\* drain trigger and the return of the fetched list; on failure the return
\* of the cached list (or of the empty list).
FetchReturn ==
  /\ fetch.pc = "replied"
  /\ IF fetch.ok
     THEN /\ cachedAppointments' =
               SetItem(cachedAppointments,
                       [present |-> TRUE, list |-> fetch.data])
          /\ LET sync == SyncPendingOperations(isProcessing, passes,
                                               pendingOperations, online)
             IN  /\ isProcessing' = sync.isProcessing
                 /\ passes' = sync.passes
     ELSE UNCHANGED << cachedAppointments, isProcessing, passes >>
  /\ fetch' = IdleFetch
  /\ UNCHANGED << envVars, server, now, pendingOperations, queueIsArray,
                  storedOperations, lastSuccessfulEndpoint, upd, auxVars >>

\* ------------------------------------------------------ connectivity monitor
\* The browser's online event: the listener of the sync manager, then
\* handleOnline (fetchAppointments, syncPendingAppointments).
GoOnline ==
  /\ ~online
  /\ online' = TRUE
  /\ LET first == SyncPendingOperations(isProcessing, passes,
                                        pendingOperations, TRUE)
         second == SyncPendingOperations(first.isProcessing, first.passes,
                                         pendingOperations, TRUE)
     IN  /\ isProcessing' = second.isProcessing
         /\ passes' = second.passes
  /\ fetch' = IF fetch.pc = "idle" THEN [fetch EXCEPT !.pc = "sent"] ELSE fetch
  /\ UNCHANGED << token, backend, serverShape, rejected, storageFails,
                  quotaVars, server, now,
                  pendingOperations, queueIsArray, storedOperations,
                  lastSuccessfulEndpoint, cachedAppointments, upd, auxVars >>

\* The browser's offline event (handleOffline only shows a notice).
GoOffline ==
  /\ online
  /\ online' = FALSE
  /\ UNCHANGED << token, backend, serverShape, rejected, storageFails,
                  quotaVars, server, now,
                  queueVars,
                  lastSuccessfulEndpoint, cachedAppointments, upd, fetch,
                  auxVars >>

\* ---------------------------------------------------------------- backend
\* The backend starts rejecting the credential (it expired), or accepts it
\* again (the user signed in again).
BackendChange ==
  /\ backend' \in {"up", "authExpired"} \ {backend}
  /\ UNCHANGED << online, token, serverShape, rejected, storageFails,
                  quotaVars, server, now,
                  queueVars,
                  lastSuccessfulEndpoint, cachedAppointments, upd, fetch,
                  auxVars >>

\* The user changes the status of an appointment.
UserUpdate ==
  /\ \E intent \in Intents : CallUpdate(intent[1], intent[2])
  /\ UNCHANGED auxVars

\* A running pass gets the answers for its current operation.
Drain == \E p \in 1..Len(passes) : DrainResponse(p)

Next ==
  \/ UserUpdate
  \/ UpdateResponse
  \/ Drain
  \/ ManualSync
  \/ FetchStart
  \/ FetchServerReply
  \/ FetchReturn
  \/ GoOnline
  \/ GoOffline
  \/ BackendChange

Spec == Init /\ [][Next]_vars

\* ------------------------------------------------- delivery under fairness
\* The user cancels appointments; the credential stays valid.
UserCancel ==
  /\ \E id \in Ids : CallUpdate(id, "cancelled")
  /\ UNCHANGED auxVars

NextDelivery ==
  \/ UserCancel
  \/ UpdateResponse
  \/ Drain
  \/ ManualSync
  \/ FetchServerReply
  \/ FetchReturn
  \/ GoOnline
  \/ GoOffline

\* Every request is answered in the end (each has a timeout), and drain
\* triggers keep coming: the user triggers the manual sync whenever
\* operations are waiting and no pass is running.
DeliverySpec ==
  /\ Init
  /\ [][NextDelivery]_vars
  /\ WF_vars(UpdateResponse)
  /\ WF_vars(Drain)
  /\ WF_vars(ManualSync)
  /\ WF_vars(FetchServerReply)
  /\ WF_vars(FetchReturn)

\* ------------------------------------------------- intents under observation
\* The user changes the status of an appointment, and the call is recorded
\* as the latest intent for that appointment (a call the token or identifier
\* check rejects is no intent).
UserUpdateRecorded ==
  \E intent \in Intents :
    /\ CallUpdate(intent[1], intent[2])
    /\ lastIntent' = IF upd' # upd
                     THEN Intend(lastIntent, intent[1], intent[2])
                     ELSE lastIntent
    /\ UNCHANGED << uiVars, scan >>

NextRecorded ==
  \/ UserUpdateRecorded
  \/ UpdateResponse
  \/ Drain
  \/ ManualSync
  \/ GoOnline
  \/ GoOffline

\* The client with its intents recorded (the list is not fetched).
RecordedSpec == Init /\ [][NextRecorded]_vars

\* -------------------------------------------------- subscription middleware
\* The client side, which the middleware does not touch.
clientVars ==
  << online, token, backend, serverShape, rejected, storageFails, server, now,
     queueVars,
     lastSuccessfulEndpoint, cachedAppointments, upd, fetch, auxVars >>

\* A request for a service reaches checkPrescriptionAnalyzerAccess or
\* checkConsultationAccess: User.findById is issued.
Arrive(service) ==
  /\ Len(requests) < MaxRequests
  /\ requests' = Append(requests, [pc |-> "finding", service |-> service,
                                    user |-> NewUser])
  /\ UNCHANGED << userDoc, admitted, clientVars >>

\* The trial test of the middleware on the document it loaded.
TrialAllows(user, service) ==
  user.subscriptionStatus = "trial" /\ user[service] > 0

\* The test of a paid subscription: active, with an end date in the future.
ActiveAllows(user) ==
  user.subscriptionStatus = "active" /\ user.subscriptionEndDate = "future"

\* The answer of the middleware of a service for the document it loaded:
\* next() after a decrement ("trial"), next() at once ("pass"), or 403.
Decision(user, service) ==
  IF service = "chatbot"
  THEN IF user.subscriptionStatus = "trial" \/ ActiveAllows(user)
       THEN "pass" ELSE "403"
  ELSE IF TrialAllows(user, service) THEN "trial"
       ELSE IF ActiveAllows(user) THEN "pass" ELSE "403"

\* findById resolves with a copy of the stored document, and the middleware
\* runs up to its next await: on a trial with uses left it decrements the
\* counter of its copy and issues user.save(); with the chatbot on trial or
\* with a paid subscription it calls next(); otherwise it answers 403.
FindById(r) ==
  /\ requests[r].pc = "finding"
  /\ LET service == requests[r].service
         decision == Decision(userDoc, service)
     IN  /\ requests' = [requests EXCEPT ![r] =
               IF decision = "trial"
               THEN [pc |-> "saving", service |-> service,
                     user |-> [userDoc EXCEPT ![service] = @ - 1]]
               ELSE [pc |-> IF decision = "pass" THEN "admitted"
                            ELSE "denied",
                     service |-> service, user |-> userDoc]]
         /\ admitted' = IF decision = "pass"
                        THEN [admitted EXCEPT ![service] = @ + 1]
                        ELSE admitted
  /\ UNCHANGED << userDoc, clientVars >>

\* user.save() resolves: the modified counter of the copy is written to the
\* stored document, and the middleware calls next().
Save(r) ==
  /\ requests[r].pc = "saving"
  /\ LET service == requests[r].service
     IN  /\ userDoc' = [userDoc EXCEPT ![service] = requests[r].user[service]]
         /\ admitted' = [admitted EXCEPT ![service] = @ + 1]
  /\ requests' = [requests EXCEPT ![r].pc = "admitted"]
  /\ UNCHANGED clientVars

RequestArrives == \E service \in Services : Arrive(service)
DocumentFound == \E r \in 1..Len(requests) : FindById(r)
DocumentSaved == \E r \in 1..Len(requests) : Save(r)

NextQuota ==
  \/ RequestArrives
  \/ DocumentFound
  \/ DocumentSaved

\* The requests of one trial user in the subscription middleware.
QuotaSpec == Init /\ [][NextQuota]_vars

\* ------------------------------------------------------- access decisions
\* What GET /subscription/status answers for a stored document: a paid
\* subscription whose end date has passed is reported (and stored) as
\* inactive.
StatusData(user) ==
  [status |-> IF user.subscriptionStatus = "active"
                 /\ user.subscriptionEndDate = "past"
              THEN "inactive" ELSE user.subscriptionStatus,
   trialAnalysesRemaining |-> user["prescription"],
   trialConsultationsRemaining |-> user["consultation"],
   subscriptionEndDate |-> user.subscriptionEndDate]

\* A client check that forgets the counters of the trial.
CheckAccessIgnoresCounters(subscriptionStatus, service) ==
  \/ /\ subscriptionStatus.status = "active"
     /\ subscriptionStatus.subscriptionEndDate = "future"
  \/ subscriptionStatus.status = "trial"

\* checkAccess(service) of the subscription context, for a loaded status (a
\* status that is still null returns false before these tests).
CheckAccess(subscriptionStatus, service) ==
  IF /\ subscriptionStatus.status = "active"
     /\ subscriptionStatus.subscriptionEndDate = "future"
  THEN TRUE
  ELSE IF subscriptionStatus.status = "trial"
       THEN \/ /\ service = "prescription"
               /\ subscriptionStatus.trialAnalysesRemaining > 0
            \/ /\ service = "consultation"
               /\ subscriptionStatus.trialConsultationsRemaining > 0
            \/ service = "chatbot"
       ELSE FALSE

\* No request is inside a middleware.
NoneInFlight ==
  \A r \in 1..Len(requests) : requests[r].pc \in {"admitted", "denied"}

\* A request for any of the three services arrives while no other request
\* of the user is being checked.
ArriveAlone ==
  /\ NoneInFlight
  /\ \E service \in AllServices : Arrive(service)

NextAccess ==
  \/ ArriveAlone
  \/ DocumentFound
  \/ DocumentSaved

\* The requests of a user in any subscription state, one at a time.
AccessSpec == InitAccess /\ [][NextAccess]_vars

\* -------------------------------------------------- manual sync with toast
NextReported ==
  \/ UserCancel
  \/ UpdateResponse
  \/ Drain
  \/ ManualSyncReported
  \/ GoOnline
  \/ GoOffline

\* The client whose drain passes are started by the online event, by an
\* enqueue and by the manual sync of the list, which shows its toast.
ReportedSpec == Init /\ [][NextReported]_vars

\* The client started with an item 'pendingAppointmentOperations' in the
\* storage.
LoadedSpec == InitLoaded /\ [][NextDelivery]_vars

\* The client started with a stored item, every request answered in the end
\* and drain triggers that keep coming.
LoadedFairSpec ==
  /\ InitLoaded
  /\ [][NextDelivery]_vars
  /\ WF_vars(UpdateResponse)
  /\ WF_vars(Drain)
  /\ WF_vars(ManualSync)
  /\ WF_vars(FetchServerReply)
  /\ WF_vars(FetchReturn)

\* The same client in front of a server that refuses appointment a1.
RejectingSpec ==
  /\ InitRejecting
  /\ [][NextDelivery]_vars
  /\ WF_vars(UpdateResponse)
  /\ WF_vars(Drain)
  /\ WF_vars(ManualSync)
  /\ WF_vars(FetchServerReply)
  /\ WF_vars(FetchReturn)

\* ---------------------------------------------------- triggers while offline
\* syncPendingAppointments(), the drain trigger exported to the interface,
\* called at any moment, online or offline.
SyncTrigger ==
  /\ LET sync == SyncPendingOperations(isProcessing, passes,
                                       pendingOperations, online)
     IN  /\ isProcessing' = sync.isProcessing
         /\ passes' = sync.passes
  /\ UNCHANGED << envVars, server, now, pendingOperations, queueIsArray,
                  storedOperations, lastSuccessfulEndpoint,
                  cachedAppointments, upd, fetch, auxVars >>

\* handleManualSync while the list knows the device to be offline: the toast
\* 'Cannot Sync', and syncPendingAppointments is not called.
ManualSyncOffline ==
  /\ ~online
  /\ ~isSyncing
  /\ toast' = "Cannot Sync"
  /\ UNCHANGED << envVars, server, now, queueVars, lastSuccessfulEndpoint,
                  cachedAppointments, upd, fetch, lastIntent, isSyncing,
                  scan >>

NextOffline ==
  \/ UserCancel
  \/ UpdateResponse
  \/ Drain
  \/ SyncTrigger
  \/ ManualSyncOffline
  \/ FetchServerReply
  \/ FetchReturn
  \/ GoOnline
  \/ GoOffline

\* The client whose drain trigger is also pulled while the device is offline.
OfflineSpec == Init /\ [][NextOffline]_vars

\* ------------------------------------------------------ a storage that fails
\* Other data fills the storage of the origin up to its quota, or some of it
\* is removed again.
StorageChange ==
  /\ storageFails' = ~storageFails
  /\ UNCHANGED << online, token, backend, serverShape, rejected, quotaVars,
                  server, now, queueVars, lastSuccessfulEndpoint,
                  cachedAppointments, upd, fetch, auxVars >>

NextFullStorage ==
  \/ UserCancel
  \/ UpdateResponse
  \/ Drain
  \/ ManualSync
  \/ GoOnline
  \/ GoOffline
  \/ StorageChange

\* The client on a device whose storage may refuse a write.
FullStorageSpec == Init /\ [][NextFullStorage]_vars

\* ------------------------------------------------------- requests of a call
\* The number of requests a candidate scan issues: up to the first accepted
\* candidate, or the whole list.
RequestsOfScan(endpoints, id) ==
  LET k == FirstAccepted(endpoints, id)
  IN  IF k # 0 THEN k ELSE Len(endpoints)

\* The number of requests the update call in flight issues: the one on the
\* remembered endpoint, if any, and the scan unless that one succeeded.
UpdateRequests ==
  IF upd.cached = NoEndpoint THEN RequestsOfScan(UpdateEndpoints, upd.id)
  ELSE IF Respond(upd.cached) = "ok" THEN 1
       ELSE 1 + RequestsOfScan(UpdateEndpoints, upd.id)

\* The number of requests pass p issues for its current operation, and the
\* first of them: syncAppointmentToDatabase starts with its first candidate.
DrainRequests(p) == RequestsOfScan(SyncEndpoints, DrainOperation(p).id)
DrainFirstRequest(p) ==
  [shape |-> SyncEndpoints[1], id |-> DrainOperation(p).id]

\* ------------------------------------------ the resolver, request by request
\* The answer the client gets to one request: the server's success, a
\* failure, or nothing within the timeout of the request although the server
\* applied it.
Answers(req) ==
  IF Respond(req) = "ok" THEN {"ok", "timeout"} ELSE {"failed"}

\* The update call in flight is waiting for the answer on the remembered
\* endpoint.
UpdateCachedPending ==
  upd.cached # NoEndpoint /\ scan["update"].answered = 0

\* The position in the candidate list of the request the update call in
\* flight is waiting for.
UpdateCandidate ==
  scan["update"].answered + (IF upd.cached # NoEndpoint THEN 0 ELSE 1)

\* The request the update call in flight is waiting for.
UpdateRequest ==
  IF UpdateCachedPending THEN upd.cached
  ELSE [shape |-> UpdateEndpoints[UpdateCandidate], id |-> upd.id]

\* The record of a caller whose call has returned.
Returned(answer) ==
  [answered |-> 0, applied |-> 0,
   result |-> IF answer = "ok" THEN "ok" ELSE "failed"]

\* One request of updateAppointmentStatus is answered.  A success returns
\* (a candidate of the scan is remembered first); a failure sends the next
\* candidate; the failure of the last candidate ends in the mock fallback.
UpdateAttempt ==
  /\ upd.pc = "waiting"
  /\ \E answer \in Answers(UpdateRequest) :
       LET applied == scan["update"].applied
                        + (IF answer = "failed" THEN 0 ELSE 1)
       IN  /\ server' = IF answer = "failed" THEN server
                        ELSE Applied(server, UpdateRequest, upd.status)
           /\ IF answer = "ok"
              THEN /\ lastSuccessfulEndpoint' =
                        IF UpdateCachedPending THEN lastSuccessfulEndpoint
                        ELSE UpdateRequest
                   /\ lastIntent' = Acknowledge(lastIntent, upd.id, upd.status)
                   /\ upd' = IdleUpd
                   /\ scan' = [scan EXCEPT !["update"] = Returned(answer)]
                   /\ UNCHANGED << now, queueVars, cachedAppointments >>
              ELSE IF UpdateCachedPending
                      \/ UpdateCandidate < Len(UpdateEndpoints)
              THEN /\ scan' = [scan EXCEPT !["update"].answered = @ + 1,
                                           !["update"].applied = applied]
                   /\ UNCHANGED << now, queueVars, cachedAppointments, upd,
                                   lastSuccessfulEndpoint, lastIntent >>
              ELSE /\ IF queueIsArray
                      THEN MockFallback(upd.id, upd.status)
                      ELSE UNCHANGED << now, queueVars, cachedAppointments >>
                   /\ upd' = IdleUpd
                   /\ scan' = [scan EXCEPT !["update"] = Returned(answer)]
                   /\ UNCHANGED << lastSuccessfulEndpoint, lastIntent >>
  /\ UNCHANGED << envVars, fetch, uiVars >>

\* The request pass p is waiting for: a candidate of syncAppointmentToDatabase
\* for the operation the pass is delivering.
DrainRequest(p) ==
  [shape |-> SyncEndpoints[scan["drain"].answered + 1],
   id |-> DrainOperation(p).id]

\* One request of syncAppointmentToDatabase is answered.  A success is
\* remembered and the operation is marked for removal; a failure sends the
\* next candidate; the failure of the last candidate breaks the loop of the
\* pass.
DrainAttempt(p) ==
  /\ p \in 1..Len(passes)
  /\ \E answer \in Answers(DrainRequest(p)) :
       LET applied == scan["drain"].applied
                        + (IF answer = "failed" THEN 0 ELSE 1)
           removed == IF answer = "ok"
                      THEN Append(passes[p].operationsToRemove,
                                  DrainOperation(p).id)
                      ELSE passes[p].operationsToRemove
       IN  /\ server' = IF answer = "failed" THEN server
                        ELSE Applied(server, DrainRequest(p),
                                     DrainOperation(p).status)
           /\ IF answer # "ok"
                 /\ scan["drain"].answered + 1 < Len(SyncEndpoints)
              THEN /\ scan' = [scan EXCEPT !["drain"].answered = @ + 1,
                                           !["drain"].applied = applied]
                   /\ UNCHANGED << lastSuccessfulEndpoint, lastIntent,
                                   pendingOperations, storedOperations,
                                   isProcessing, passes, uiVars >>
              ELSE /\ scan' = [scan EXCEPT !["drain"] = Returned(answer)]
                   /\ IF answer = "ok"
                      THEN /\ lastSuccessfulEndpoint' = DrainRequest(p)
                           /\ lastIntent' =
                                Acknowledge(lastIntent, DrainOperation(p).id,
                                            DrainOperation(p).status)
                      ELSE UNCHANGED << lastSuccessfulEndpoint, lastIntent >>
                   /\ IF answer = "ok"
                         /\ passes[p].index < Len(passes[p].sortedOperations)
                      THEN PassAdvances(p, removed)
                      ELSE PassEnds(p, removed)
  /\ UNCHANGED << envVars, now, queueIsArray, cachedAppointments, upd,
                  fetch >>

\* A running pass gets the answer to its request in flight.
DrainStepwise == \E p \in 1..Len(passes) : DrainAttempt(p)

NextStepwise ==
  \/ UserCancel
  \/ UpdateAttempt
  \/ DrainStepwise
  \/ ManualSync
  \/ GoOnline
  \/ GoOffline

\* The client with every request of the resolver answered on its own.
StepwiseSpec == Init /\ [][NextStepwise]_vars

\* ------------------------------------------------------------------ steps
\* The step in which the updateAppointmentStatus call in flight returns.
UpdateReturnStep == upd.pc = "waiting" /\ upd'.pc = "idle"
\* The step in which it returns after enqueuing (every request failed).
EnqueueStep == UpdateReturnStep /\ UpdateOutcome = "mock"
\* The step in which it returns the server's acknowledgment.
AckStep == UpdateReturnStep /\ UpdateOutcome = "ack"
\* The step in which the running drain pass ends.
PassFinishStep == Len(passes) = 1 /\ Len(passes') = 0
\* The step in which getUserAppointments returns.
FetchReturnStep == fetch.pc = "replied" /\ fetch'.pc = "idle"

UniqueIds(ops) ==
  \A i, j \in 1..Len(ops) : i # j => ops[i].id # ops[j].id

EntriesFor(ops, id) == {i \in 1..Len(ops) : ops[i].id = id}

StatusIn(list, id) ==
  LET hits == {i \in 1..Len(list) : list[i].id = id}
  IN  IF hits = {} THEN "absent" ELSE list[CHOOSE i \in hits : TRUE].status

\* ------------------------------------------------------------------ claims
\* C1: in every reachable state the pending queue holds at most one entry per
\* appointment id, and after an enqueue the entry of the enqueued id carries
\* the status of that (most recent) enqueue, while the entries of the other
\* ids are the ones the queue held before.
C1_LastIntentWins ==
  /\ [](UniqueIds(pendingOperations))
  /\ [][EnqueueStep =>
          /\ \E i \in 1..Len(pendingOperations') :
               /\ EntriesFor(pendingOperations', upd.id) = {i}
               /\ pendingOperations'[i].status = upd.status
          /\ \A op \in Range(pendingOperations) :
               op.id # upd.id => op \in Range(pendingOperations')
          /\ \A op \in Range(pendingOperations') :
               op.id # upd.id => op \in Range(pendingOperations)]_vars

\* C1 witness: the entry of a1 was overwritten in place after a2 had been
\* enqueued (a1 still comes first but carries the later timestamp).
C1_Witness ==
  /\ Len(pendingOperations) = 2
  /\ pendingOperations[1].id = "a1"
  /\ pendingOperations[1].status = "confirmed"
  /\ pendingOperations[1].timestamp > pendingOperations[2].timestamp

\* C3: when every request of updateAppointmentStatus(id, s) fails - always
\* so while the device is offline - the call returns (it does not raise), the
\* queue then holds exactly one entry for id, with status s, and a present
\* cache differs from the cache before only in the status of id, now s.
C3_FailureFallsThroughToQueue ==
  [][(UpdateReturnStep /\ (UpdateOutcome = "mock" \/ ~online)) =>
       /\ \E i \in 1..Len(pendingOperations') :
            /\ EntriesFor(pendingOperations', upd.id) = {i}
            /\ pendingOperations'[i].status = upd.status
       /\ cachedAppointments'.present = cachedAppointments.present
       /\ Len(cachedAppointments'.list) = Len(cachedAppointments.list)
       /\ \A i \in 1..Len(cachedAppointments.list) :
            /\ cachedAppointments'.list[i].id = cachedAppointments.list[i].id
            /\ cachedAppointments'.list[i].status =
                 IF cachedAppointments.list[i].id = upd.id
                 THEN upd.status
                 ELSE cachedAppointments.list[i].status]_vars

\* C3 witness: offline, the cancellation of a1 is queued and the cache shows
\* a1 cancelled next to an untouched a2, while the server still has a1
\* confirmed.
C3_Witness ==
  /\ ~online
  /\ upd.pc = "idle"
  /\ Len(pendingOperations) = 1
  /\ pendingOperations[1].id = "a1"
  /\ pendingOperations[1].status = "cancelled"
  /\ cachedAppointments.present
  /\ StatusIn(cachedAppointments.list, "a1") = "cancelled"
  /\ StatusIn(cachedAppointments.list, "a2") = "confirmed"
  /\ server["a1"] = "confirmed"

\* The number of operations the running pass has delivered once the answers
\* for its current operation are in.
Delivered ==
  (passes[1].index - 1) + (IF DrainAccepted(1) # NoEndpoint THEN 1 ELSE 0)

\* No enqueue changed the queue since the running pass took its snapshot.
NoEnqueueDuringPass ==
  SortByTimestamp(pendingOperations) = passes[1].sortedOperations

C6_SinglePass ==
  /\ Len(passes) <= 1
  /\ isProcessing <=> Len(passes) = 1

\* C6 witness: a pass is running and the queue holds an operation that is
\* not in its snapshot - the trigger of that enqueue started no second pass.
C6_Witness ==
  /\ Len(passes) = 1
  /\ online
  /\ \E op \in Range(pendingOperations) :
       op \notin Range(passes[1].sortedOperations)

\* C2 (as claimed): the list getUserAppointments returns shows, for every
\* appointment with a pending operation, the status of that operation, both
\* for a fetched list and for the cache fallback.
C2_OverlayOnList ==
  [][FetchReturnStep =>
       \A op \in Range(pendingOperations) :
         StatusIn(ReturnedList, op.id) \in {op.status, "absent"}]_vars

\* C4 (as claimed): when the server acknowledges the live call, the queue is
\* left as it was and a present cache shows the new status for the
\* appointment, every other cached appointment unchanged.
C4_AckUpdatesCacheOnly ==
  [][AckStep =>
       /\ pendingOperations' = pendingOperations
       /\ cachedAppointments'.present = cachedAppointments.present
       /\ Len(cachedAppointments'.list) = Len(cachedAppointments.list)
       /\ \A i \in 1..Len(cachedAppointments.list) :
            /\ cachedAppointments'.list[i].id = cachedAppointments.list[i].id
            /\ cachedAppointments'.list[i].status =
                 IF cachedAppointments.list[i].id = upd.id
                 THEN upd.status
                 ELSE cachedAppointments.list[i].status]_vars

\* The operations the running pass has delivered once the answers for its
\* current operation are in.
DeliveredOperations ==
  {passes[1].sortedOperations[i] : i \in 1..Delivered}

\* C7 (as claimed): when a pass ends, every operation (id, s) it delivered,
\* and that no newer intent replaced meanwhile, has left the queue and a
\* present cache shows id with status s - whatever a fetch wrote to the
\* cache during the pass.
C7_DrainConfirmsCache ==
  [][PassFinishStep =>
       \A op \in DeliveredOperations :
         op \in Range(pendingOperations) =>
           /\ EntriesFor(pendingOperations', op.id) = {}
           /\ cachedAppointments'.present =>
                StatusIn(cachedAppointments'.list, op.id) = op.status]_vars

\* C8 (as claimed): a pass removes only what it delivered - every operation
\* in the queue at the end of the pass that is not one of the delivered
\* operations (an entry enqueued or overwritten during the pass) is still in
\* the queue after the pass.
C8_PassKeepsUndeliveredIntents ==
  [][PassFinishStep =>
       \A op \in Range(pendingOperations) :
         op \notin DeliveredOperations => op \in Range(pendingOperations')]_vars

\* The answers the call in flight gets to its requests: the one on the
\* remembered endpoint and, unless that one succeeded, those of the scan up
\* to the first accepted candidate.
UpdateAnswers ==
  LET cachedAnswer == IF upd.cached # NoEndpoint
                      THEN {Respond(upd.cached)} ELSE {}
      k == FirstAccepted(UpdateEndpoints, upd.id)
      last == IF k # 0 THEN k ELSE Len(UpdateEndpoints)
  IN  IF "ok" \in cachedAnswer THEN cachedAnswer
      ELSE cachedAnswer \cup
           {Respond([shape |-> UpdateEndpoints[j], id |-> upd.id]) :
              j \in 1..last}

\* C10 (as claimed): a call the server answered with 401 adds no pending
\* operation, removes the stored token and ends with an error for its
\* caller.
C10_AuthExpiredNotQueued ==
  [][(UpdateReturnStep /\ "401" \in UpdateAnswers) =>
       /\ pendingOperations' = pendingOperations
       /\ ~token'
       /\ UpdateOutcome \notin {"ack", "mock"}]_vars

HasPending(id) == EntriesFor(pendingOperations, id) # {}

\* C9 (as claimed): if from some point on the device stays online (the
\* credential is valid throughout and the backend serves one of the candidate
\* shapes), every appointment with a pending operation eventually has none:
\* its operation was acknowledged and removed.
C9_EventualDelivery ==
  (<>[]online) => \A id \in Ids : HasPending(id) ~> ~HasPending(id)

\* C11 (as claimed): a call the server answered with a validation error (400)
\* ends with an error for its caller, adds no pending operation and leaves
\* the cache as it was.  (A call the local identifier check rejects changes
\* no state at all: CallUpdate leaves every variable as it is.)
C11_ValidationErrorNotQueued ==
  [][(UpdateReturnStep /\ "400" \in UpdateAnswers) =>
       /\ UpdateOutcome \notin {"ack", "mock"}
       /\ pendingOperations' = pendingOperations
       /\ cachedAppointments' = cachedAppointments]_vars

\* C12 (as claimed): cancelled is terminal - no step changes the status the
\* server holds for a cancelled appointment (direct success, drain delivery),
\* and the optimistic cache write of an enqueue leaves an appointment the
\* cache shows as cancelled cancelled.
C12_CancelledIsTerminal ==
  [][/\ \A id \in Ids :
          server[id] = "cancelled" => server'[id] = "cancelled"
     /\ EnqueueStep =>
          \A id \in Ids :
            StatusIn(cachedAppointments.list, id) = "cancelled"
              => StatusIn(cachedAppointments'.list, id) = "cancelled"]_vars

\* The optimistic cache write of an enqueue alone, as claimed by C12.
C12_CacheKeepsCancelled ==
  [][EnqueueStep =>
       \A id \in Ids :
         StatusIn(cachedAppointments.list, id) = "cancelled"
           => StatusIn(cachedAppointments'.list, id) = "cancelled"]_vars

\* The step in which an updateAppointmentStatus call issues its first request.
CallStep == upd.pc = "idle" /\ upd'.pc = "waiting"

\* C13 (as claimed): when a remembered endpoint exists, the first request of
\* the next updateAppointmentStatus(id, s) goes to the shape of that endpoint
\* with id in it - wherever the identifier sits in the URL (end of the path,
\* middle of the path, query parameter) - never to the appointment of the
\* call that established the endpoint.
C13_CachedAttemptUsesCurrentId ==
  [][(CallStep /\ lastSuccessfulEndpoint # NoEndpoint) =>
       upd'.cached = [shape |-> lastSuccessfulEndpoint.shape,
                      id |-> upd'.id]]_vars

\* The attempt of the call in flight on the remembered endpoint fails with a
\* network or endpoint failure.
CachedAttemptFails ==
  /\ upd.pc = "waiting"
  /\ upd.cached # NoEndpoint
  /\ Respond(upd.cached) \in {"network", "404"}

\* C20 (as claimed): when the attempt on the remembered endpoint fails and the
\* scan finds no working candidate either, no remembered endpoint exists
\* after the call (so the next call starts with the full scan).
C20_FailedEndpointDiscarded ==
  [][(UpdateReturnStep /\ CachedAttemptFails
        /\ FirstAccepted(UpdateEndpoints, upd.id) = 0) =>
       lastSuccessfulEndpoint' = NoEndpoint]_vars

\* C20 (amended): a failed attempt on the remembered endpoint does not clear
\* it.  If the scan finds no working candidate, the remembered endpoint after
\* the call is the one before it; it is replaced only by a candidate the scan
\* found working; and every call made while an endpoint is remembered tries
\* it before the scan.
C20_FailedEndpointKept ==
  /\ [][(UpdateReturnStep /\ CachedAttemptFails) =>
          LET k == FirstAccepted(UpdateEndpoints, upd.id)
          IN  lastSuccessfulEndpoint' =
                IF k = 0 THEN lastSuccessfulEndpoint
                ELSE [shape |-> UpdateEndpoints[k], id |-> upd.id]]_vars
  /\ [][(CallStep /\ lastSuccessfulEndpoint # NoEndpoint) =>
          upd'.cached # NoEndpoint]_vars

\* C20 witness: the attempt on the remembered endpoint fails and no candidate
\* of the scan is accepted.
C20_Witness ==
  /\ CachedAttemptFails
  /\ lastSuccessfulEndpoint # NoEndpoint
  /\ FirstAccepted(UpdateEndpoints, upd.id) = 0

\* Nothing is queued and no call or pass is in flight.
Quiescent ==
  /\ upd.pc = "idle"
  /\ Len(passes) = 0
  /\ Len(pendingOperations) = 0

\* The step in which the running pass gets the answers for its operation.
DrainStep ==
  /\ Len(passes) = 1
  /\ \/ Len(passes') = 0
     \/ /\ Len(passes') = 1
        /\ passes'[1].index > passes[1].index

\* C14 (as claimed): per appointment the last write wins - once nothing is
\* queued and no mutation is in flight, the server holds for every
\* appointment the status of the latest intent for it; and no pass delivers
\* a queued intent when a newer intent for the same appointment has been
\* acknowledged already.
C14_LastWriteWins ==
  /\ [](Quiescent =>
          \A id \in Ids :
            lastIntent[id] # NoIntent => server[id] = lastIntent[id].status)
  /\ [][(DrainStep /\ DrainAccepted(1) # NoEndpoint) =>
          (lastIntent[DrainOperation(1).id].acknowledged =>
             lastIntent[DrainOperation(1).id].status
               = DrainOperation(1).status)]_vars

\* The second half of C14 alone: no older queued intent is delivered after
\* a newer one was acknowledged.
C14_NoOlderIntentAfterNewerAck ==
  [][(DrainStep /\ DrainAccepted(1) # NoEndpoint) =>
       (lastIntent[DrainOperation(1).id].acknowledged =>
          lastIntent[DrainOperation(1).id].status
            = DrainOperation(1).status)]_vars

\* C15 (as claimed): a failure for one appointment does not block delivery
\* forever - when the backend serves a shape the drain knows and the device
\* stays online from some point on, a queued operation for a2, which the
\* server would accept, is eventually delivered and leaves the queue, even
\* while the operation for a1 keeps failing.
C15_FailureDoesNotBlock ==
  (serverShape \in Range(SyncEndpoints) /\ <>[]online)
    => (HasPending("a2") ~> ~HasPending("a2"))

\* The stored item is missing or does not hold an array of operations.
AbsentOrCorrupt(text) ==
  text = NoItem \/ ParseJSON(OperationKeys, text).kind # "array"

\* C16 (as claimed): the queue is loaded from the storage at the start; when
\* the item is missing or corrupt (it does not parse, or it parses to
\* something that is no list) the queue starts as the empty list, and the
\* later operations complete normally: the queue stays a list and every
\* updateAppointmentStatus call returns the server's answer or queues its
\* intent.
C16_CorruptStartsEmpty ==
  /\ AbsentOrCorrupt(storedOperations) =>
       (queueIsArray /\ pendingOperations = << >>)
  /\ [](queueIsArray)
  /\ [][UpdateReturnStep => UpdateOutcome \in {"ack", "mock"}]_vars

ReportStep == toast' # toast \/ (isSyncing /\ ~isSyncing')

\* C18: hasPendingAppointmentSyncs() is true exactly when the queue is not
\* empty, and the toast of handleManualSync is 'Sync Complete' exactly when
\* the queue is empty once syncPendingAppointments() has resolved, and
\* 'Partial Sync' otherwise.
C18_ManualSyncReport ==
  /\ [](HasPendingAppointmentSyncs(pendingOperations)
          <=> pendingOperations # << >>)
  /\ [][ReportStep =>
          /\ toast' \in {"Sync Complete", "Partial Sync"}
          /\ toast' = "Sync Complete" <=> pendingOperations' = << >>]_vars

\* C18 witness: a manual sync has reported 'Partial Sync' - the pass it
\* started and waited for has ended and an operation is still queued.
C18_Witness ==
  /\ toast = "Partial Sync"
  /\ ~isSyncing
  /\ Len(passes) = 0
  /\ online
  /\ pendingOperations # << >>

\* C19 (as claimed): whatever the interleaving of the requests, the analyses
\* checkPrescriptionAnalyzerAccess lets through never exceed the 3 of the
\* trial, the bookings checkConsultationAccess lets through never exceed its
\* 1, and neither stored counter is ever negative.
C19_TrialQuota ==
  /\ admitted["prescription"] <= TrialAnalyses
  /\ admitted["consultation"] <= TrialConsultations
  /\ userDoc["prescription"] >= 0
  /\ userDoc["consultation"] >= 0

\* The last part of C19 alone: no stored counter is ever negative.
C19_CountersNotNegative ==
  /\ userDoc["prescription"] >= 0
  /\ userDoc["consultation"] >= 0

\* The prescription part of C19 alone.
C19_AnalysesWithinTrial == admitted["prescription"] <= TrialAnalyses

\* The step in which the update call in flight returns the server's success.
UpdateSuccessStep == UpdateReturnStep /\ scan'["update"].result = "ok"

\* The step in which the running pass ends the delivery of its operation,
\* and the one in which it does so with the server's success.
DrainStepEnd == Len(passes) = 1 /\ passes' # passes
DrainSuccessStep == DrainStepEnd /\ scan'["drain"].result = "ok"

\* The scan itself, as C21 describes it: the requests of a call are answered
\* one at a time in the order of the list (the count of answered requests
\* grows by one or the call returns), and a success on a candidate makes it
\* the remembered endpoint and ends the call or the drain step.
C21_FirstSuccessEndsScan ==
  [][/\ \A c \in Callers :
          scan'[c].answered \in {scan[c].answered, scan[c].answered + 1, 0}
     /\ (UpdateSuccessStep /\ ~UpdateCachedPending) =>
          /\ lastSuccessfulEndpoint' =
               [shape |-> UpdateEndpoints[UpdateCandidate], id |-> upd.id]
          /\ scan'["update"].answered = 0
     /\ DrainSuccessStep =>
          /\ lastSuccessfulEndpoint' = DrainRequest(1)
          /\ scan'["drain"].answered = 0
          /\ \/ Len(passes') = 0
             \/ passes'[1].index = passes[1].index + 1]_vars

\* C21 (as claimed): the candidates are tried one at a time in list order,
\* the first success becomes the remembered endpoint and ends the scan, and
\* so the server applies at most one mutation for one updateAppointmentStatus
\* call and for one drain step.
C21_OneMutationPerCall ==
  /\ C21_FirstSuccessEndsScan
  /\ [](\A c \in Callers : scan[c].applied <= 1)
  /\ [][UpdateSuccessStep => scan["update"].applied = 0]_vars
  /\ [][DrainSuccessStep => scan["drain"].applied = 0]_vars

\* The drain part of the count alone: one drain step, one mutation.
C21_OneMutationPerDrainStep ==
  /\ [](scan["drain"].applied <= 1)
  /\ [][DrainSuccessStep => scan["drain"].applied = 0]_vars

\* The step in which a drain pass starts.
PassStartStep == Len(passes) = 0 /\ Len(passes') = 1

Ascending(ops) ==
  \A i, j \in 1..Len(ops) : i < j => ops[i].timestamp <= ops[j].timestamp

\* C22: a pass walks the operations the queue held at its start (each entry
\* with the timestamp of its latest overwrite) in ascending order of
\* timestamp, one operation after the other, the snapshot is not changed by
\* what happens during the pass, and the pass ends with the first operation
\* whose delivery fails.
C22_DrainInTimestampOrder ==
  /\ [][PassStartStep =>
          /\ Ascending(passes'[1].sortedOperations)
          /\ Len(passes'[1].sortedOperations) = Len(pendingOperations')
          /\ Range(passes'[1].sortedOperations) = Range(pendingOperations')
          /\ passes'[1].index = 1]_vars
  /\ [][(Len(passes) = 1 /\ Len(passes') = 1) =>
          /\ passes'[1].sortedOperations = passes[1].sortedOperations
          /\ passes'[1].index \in {passes[1].index, passes[1].index + 1}
          /\ passes'[1].index > passes[1].index
               => DrainAccepted(1) # NoEndpoint]_vars
  /\ [][(DrainStep /\ DrainAccepted(1) = NoEndpoint) =>
          Len(passes') = 0]_vars

\* C22 witness: a pass over two operations whose drain order differs from
\* the order of the queue (the first entry of the queue was overwritten
\* last) has delivered the older operation and is at the newer one.
C22_Witness ==
  /\ Len(passes) = 1
  /\ Len(passes[1].sortedOperations) = 2
  /\ passes[1].index = 2
  /\ passes[1].sortedOperations[1].timestamp
       < passes[1].sortedOperations[2].timestamp
  /\ Len(pendingOperations) = 2
  /\ pendingOperations[1] = passes[1].sortedOperations[2]

\* An endpoint is remembered and the server accepts its shape for id.
ResolvedWorks(id) ==
  /\ lastSuccessfulEndpoint # NoEndpoint
  /\ Respond([shape |-> lastSuccessfulEndpoint.shape, id |-> id]) = "ok"

\* The direct part of C23: with a remembered endpoint that works, an
\* updateAppointmentStatus call issues one request, on the remembered shape
\* with the identifier of the call.
C23_DirectCallOneRequest ==
  /\ [][(CallStep /\ ResolvedWorks(upd'.id)) =>
          upd'.cached = [shape |-> lastSuccessfulEndpoint.shape,
                         id |-> upd'.id]]_vars
  /\ [][(UpdateReturnStep /\ ResolvedWorks(upd.id)
          /\ upd.cached = [shape |-> lastSuccessfulEndpoint.shape,
                           id |-> upd.id]) =>
          UpdateRequests = 1]_vars

\* The drain part of C23: with a remembered endpoint that works, a drain
\* step issues one request, on the remembered shape.
C23_DrainStepOneRequest ==
  [][(DrainStep /\ ResolvedWorks(DrainOperation(1).id)) =>
       /\ DrainRequests(1) = 1
       /\ DrainFirstRequest(1).shape = lastSuccessfulEndpoint.shape]_vars

\* C23 (as claimed): once an endpoint is remembered and its shape keeps
\* working, every later mutation - direct call or drain step - issues exactly
\* one request, on the remembered shape with the current identifier: the two
\* paths resolve through the same remembered shape.
C23_ResolvedShapeOnly ==
  /\ C23_DirectCallOneRequest
  /\ C23_DrainStepOneRequest

\* C24 (as claimed): no two resolver calls are in flight for the same
\* appointment - while an updateAppointmentStatus call for id waits for its
\* answers, no drain pass is delivering an operation for id.  (The model keeps
\* one direct call in flight at a time, so two direct calls never overlap in
\* it.)
C24_NoOverlapPerId ==
  ~ (/\ upd.pc = "waiting"
     /\ \E p \in 1..Len(passes) : DrainOperation(p).id = upd.id)

\* The queue a restart of the application would load now.
ReloadedQueue == LoadPendingOperations(storedOperations).operations

\* C25 (as claimed): at every moment of a pass, the operations it has
\* delivered so far (the server acknowledged them and the request for the
\* next operation is out) are no longer in the durable queue - a restart at
\* that moment would not load, and so not deliver again, an acknowledged
\* operation.
C25_AcknowledgedLeftDurableQueue ==
  \A p \in 1..Len(passes) :
    \A i \in 1..(passes[p].index - 1) :
      passes[p].sortedOperations[i] \notin Range(ReloadedQueue)

\* C26: when the write of the queue fails during an enqueue, the call still
\* returns the optimistic result, the queue in memory holds exactly one entry
\* for the appointment, with the new status, and one entry per appointment
\* overall, and the stored item is what it was.
C26_FailedSaveDoesNotAbort ==
  [][(UpdateReturnStep /\ UpdateAccepted = NoEndpoint /\ storageFails) =>
       /\ UpdateOutcome = "mock"
       /\ \E i \in 1..Len(pendingOperations') :
            /\ EntriesFor(pendingOperations', upd.id) = {i}
            /\ pendingOperations'[i].status = upd.status
       /\ UniqueIds(pendingOperations')
       /\ storedOperations' = storedOperations]_vars

\* C26 witness: an enqueue whose write failed - the queue in memory holds an
\* operation and the stored item none.
C26_Witness ==
  /\ storageFails
  /\ upd.pc = "idle"
  /\ Len(pendingOperations) = 1
  /\ ReloadedQueue = << >>

\* C27 (as claimed): every pass ends - whenever the engine is draining
\* (isProcessing is set), it is idle again later, whatever the answers to the
\* requests of the pass, so that a later trigger is not ignored.
C27_EveryPassEnds == isProcessing ~> ~isProcessing

\* C28: while the device is offline no pass starts - not by a drain trigger,
\* not by the manual sync, not by an enqueue - and a step that is neither a
\* call, nor an answer to a call, a fetch or a request of a running pass (so:
\* a trigger) leaves the queue, its stored copy, the cache, the server and
\* isProcessing as they are.
C28_OfflineTriggerDoesNothing ==
  /\ [][(~online /\ ~online') =>
          /\ Len(passes') <= Len(passes)
          /\ isProcessing' => isProcessing]_vars
  /\ [][(~online /\ ~online'
          /\ upd' = upd /\ fetch' = fetch /\ passes' = passes) =>
          /\ pendingOperations' = pendingOperations
          /\ storedOperations' = storedOperations
          /\ cachedAppointments' = cachedAppointments
          /\ isProcessing' = isProcessing
          /\ server' = server]_vars

\* C28 witness: offline, with an operation queued while offline and a manual
\* sync that was refused, no pass is running.
C28_Witness ==
  /\ ~online
  /\ toast = "Cannot Sync"
  /\ pendingOperations # << >>
  /\ ~isProcessing
  /\ Len(passes) = 0

\* --------------------------------------------------------------------- C29
\* The condition under which a service is open to a user: on trial with uses
\* of the service left (the chatbot has no counter), or a paid subscription
\* that is active with an end date in the future.
Open(user, service) ==
  \/ /\ user.subscriptionStatus = "trial"
     /\ service = "chatbot" \/ user[service] > 0
  \/ /\ user.subscriptionStatus = "active"
     /\ user.subscriptionEndDate = "future"

\* The middleware of request r answers in this step.
Answered(r) ==
  /\ r \in 1..Len(requests)
  /\ requests[r].pc = "finding"
  /\ requests'[r].pc # "finding"

\* One more request for the service has been admitted in this step.
Admission(service) == admitted'[service] = admitted[service] + 1

PassRemovedStep == PassFinishStep /\ pendingOperations' # pendingOperations

\* C30: between the steps of the queue, while the writes of the storage
\* succeed, loading the item 'pendingAppointmentOperations' gives the field
\* pendingOperations; after every addPendingOperation, and after every pass
\* that removed an operation, the item is the text of the queue in memory and
\* loads back to it.
C30_DurableEqualsMemory ==
  /\ [](~storageFails =>
         LoadPendingOperations(storedOperations)
           = [isArray |-> queueIsArray, operations |-> pendingOperations])
  /\ [][(EnqueueStep \/ PassRemovedStep) =>
          /\ storedOperations' = StringifyOperations(pendingOperations')
          /\ LoadPendingOperations(storedOperations').operations
               = pendingOperations']_vars

\* An operation was queued after the start, a pass has since emptied the
\* queue, and the stored item is the text of the empty queue.
C30_Witness ==
  /\ now > 0
  /\ pendingOperations = << >>
  /\ storedOperations = StringifyOperations(<< >>)
  /\ passes = << >>
  /\ ~isProcessing
====
